---- MODULE Spec2Model ----
(***************************************************************************)
(* The streaming three-phase generation pipeline of gitdiagram's backend:  *)
(* routers/generate.py (validation, metadata cache, event_generator, the   *)
(* link rewriter process_click_events) and services/ollama_service.py      *)
(* (call_o3_api_stream, the incremental mode of the engine).               *)
(*                                                                         *)
(* Text is a sequence of one-character strings, so that concatenation,     *)
(* substring search and the regular expression of the link rewriter are    *)
(* computed character by character as Python computes them.                *)
(***************************************************************************)
EXTENDS Integers, Sequences, FiniteSets, TLC

VARIABLES
    body,                  \* the ApiRequest of the generation request (NoBody before it arrives)
    response,              \* what generate_stream returned: "none", an error dict, or the stream
    pc,                    \* position of event_generator
    phase,                 \* 0 before the phases, then 1, 2, 3: which async-for loop pc is in
    events,                \* the dicts event_generator has yielded (json.dumps'ed on the wire)
    github_data,           \* event_generator's local github_data
    explanation,           \* event_generator's local explanation
    full_second_response,  \* event_generator's local full_second_response
    mermaid_code,          \* event_generator's local mermaid_code
    line_count,            \* call_o3_api_stream's local line_count of the running call
    conn,                  \* per phase, the aiohttp response of its engine call: "none",
                           \* "open", "drained" (read to the end of the stream and
                           \* released) or "aborted" (given up before the end)
    engineCalls,           \* the calls made to llm_service.call_o3_api_stream, in order
    cache,                 \* the lru_cache of get_cached_github_data, least recently used first
    lookups,               \* how many calls of get_cached_github_data each caller made
                           \* for each key, by what the call did (hit, fetched, raised)
    delivered,             \* non-blank lines the backend has sent during this request
    posted,                \* what session.post did in each engine call, in call order
    call,                  \* a function called on its own, outside a request: its
                           \* name and arguments (NoCall when the pipeline runs)
    results                \* what the successive calls of that function returned

vars == <<body, response, pc, phase, events, github_data, explanation,
          full_second_response, mermaid_code, line_count, conn, engineCalls,
          cache, lookups, delivered, posted, call, results>>

(***************************************************************************)
(* Bounds of the model.                                                    *)
(***************************************************************************)
\* non-blank transport lines the backend sends during one generation request
MaxLines == 2
\* cost-estimate requests served in one behaviour
MaxCostCalls == 2

(***************************************************************************)
(* Program constants.                                                      *)
(***************************************************************************)
\* generate.py:107  len(body.instructions) > 1000
MaxInstructions == 1000
\* generate.py:34  @lru_cache(maxsize=100)
LruMaxSize == 100
\* ollama_service.py:110  response.status != 200
HttpOk == 200

\* generate.py:164
BAD_INSTRUCTIONS ==
    <<"B", "A", "D", "_", "I", "N", "S", "T", "R", "U", "C", "T", "I", "O", "N", "S">>

\* generate.py:110-116
ReservedRepos ==
    { <<"f", "a", "s", "t", "a", "p", "i">>,
      <<"s", "t", "r", "e", "a", "m", "l", "i", "t">>,
      <<"f", "l", "a", "s", "k">>,
      <<"a", "p", "i", "-", "a", "n", "a", "l", "y", "t", "i", "c", "s">>,
      <<"m", "o", "n", "k", "e", "y", "t", "y", "p", "e">> }

NoBody == [none |-> TRUE]
NoPat == "None"
NoData == [none |-> TRUE]
NoCall == [fn |-> "none"]

(***************************************************************************)
(* Text helpers (Python str operations).                                   *)
(***************************************************************************)
\* needle in hay
Contains(hay, needle) ==
    \E i \in 0..(Len(hay) - Len(needle)) :
        SubSeq(hay, i + 1, i + Len(needle)) = needle

RECURSIVE Concat(_)
\* "".join(texts)
Concat(texts) ==
    IF texts = <<>> THEN <<>> ELSE Head(texts) \o Concat(Tail(texts))

\* the characters \s matches
Whitespace == {" ", "\t", "\n", "\r", "\f"}
Quotes == {"\"", "'"}

RECURSIVE StripQuotes(_)
\* path.strip("\"'")
StripQuotes(p) ==
    IF p = <<>> THEN <<>>
    ELSE IF Head(p) \in Quotes THEN StripQuotes(Tail(p))
    ELSE IF p[Len(p)] \in Quotes THEN StripQuotes(SubSeq(p, 1, Len(p) - 1))
    ELSE p

RECURSIVE LastSegment(_)
\* path.split("/")[-1]
LastSegment(p) ==
    IF \E i \in 1..Len(p) : p[i] = "/"
    THEN LastSegment(SubSeq(p, (CHOOSE i \in 1..Len(p) : p[i] = "/") + 1, Len(p)))
    ELSE p

(***************************************************************************)
(* The link rewriter, generate.py:77-100.                                  *)
(***************************************************************************)
ClickLiteral == <<"c", "l", "i", "c", "k", " ">>
GithubHost == <<"h", "t", "t", "p", "s", ":", "/", "/", "g", "i", "t", "h", "u", "b", ".", "c", "o", "m", "/">>
Blob == <<"b", "l", "o", "b">>
Tree == <<"t", "r", "e", "e">>

\* is_file looking for the dot in the whole path
is_fileAnyDot(path) == \E i \in 1..Len(path) : path[i] = "."

\* "." in path.split("/")[-1]
is_file(path) == \E i \in 1..Len(LastSegment(path)) : LastSegment(path)[i] = "."

\* blob for a file, tree for a directory
path_type(path) == IF is_file(path) THEN Blob ELSE Tree

\* replace_path: the text that replaces one match with groups g1 and g2
replace_path(g1, g2, username, repo, branch) ==
    LET path == StripQuotes(g2)
        base_url == GithubHost \o username \o <<"/">> \o repo
        full_url == base_url \o <<"/">> \o path_type(path) \o <<"/">> \o branch
                        \o <<"/">> \o path
    IN  ClickLiteral \o g1 \o <<" ", "\"">> \o full_url \o <<"\"">>

\* the character classes of click_pattern: [^\s"]  \s  [^"]
InClass(c, cls) ==
    CASE cls = "id" -> c \notin Whitespace /\ c # "\""
      [] cls = "space" -> c \in Whitespace
      [] cls = "path" -> c # "\""

RECURSIVE RunEnd(_, _, _)
\* last index of the longest run of cls characters of s that starts at i (i - 1: none)
RunEnd(s, i, cls) ==
    IF i <= Len(s) /\ InClass(s[i], cls) THEN RunEnd(s, i + 1, cls) ELSE i - 1

\* click_pattern = r'click ([^\s"]+)\s+"([^"]+)"' tried at index i of s. Each
\* greedy run is followed by a character outside its class, so the longest run is
\* the only one a match can use.
MatchAt(s, i) ==
    LET a == i + Len(ClickLiteral)
        e1 == RunEnd(s, a, "id")
        e2 == RunEnd(s, e1 + 1, "space")
        q == e2 + 1
        e3 == RunEnd(s, q + 1, "path")
        close == e3 + 1
    IN  IF /\ a - 1 <= Len(s)
           /\ SubSeq(s, i, a - 1) = ClickLiteral
           /\ e1 >= a
           /\ e2 >= e1 + 1
           /\ q <= Len(s) /\ s[q] = "\""
           /\ e3 >= q + 1
           /\ close <= Len(s) /\ s[close] = "\""
        THEN [ok |-> TRUE, g1 |-> SubSeq(s, a, e1), g2 |-> SubSeq(s, q + 1, e3),
              end |-> close]
        ELSE [ok |-> FALSE]

RECURSIVE re_sub(_, _, _, _, _)
\* re.sub(click_pattern, replace_path, s) from index i on: leftmost matches, not
\* overlapping, everything else copied
re_sub(s, i, username, repo, branch) ==
    IF i > Len(s) THEN <<>>
    ELSE LET m == MatchAt(s, i)
         IN  IF m.ok
             THEN replace_path(m.g1, m.g2, username, repo, branch)
                      \o re_sub(s, m.end + 1, username, repo, branch)
             ELSE <<s[i]>> \o re_sub(s, i + 1, username, repo, branch)

\* process_click_events that returns as it is a text that holds a GitHub URL
process_click_eventsOnce(diagram, username, repo, branch) ==
    IF Contains(diagram, GithubHost) THEN diagram
    ELSE re_sub(diagram, 1, username, repo, branch)

process_click_events(diagram, username, repo, branch) ==
    re_sub(diagram, 1, username, repo, branch)

(***************************************************************************)
(* Requests and what the outside world may answer.                         *)
(***************************************************************************)
Usernames == { <<"o">> }
Repos == { <<"r">> } \cup ReservedRepos
\* body.instructions is represented by its length: the code reads only
\* len(body.instructions) and its truth value, and passes it on unchanged
InstructionLengths == {0, MaxInstructions, MaxInstructions + 1}
\* the credential the model's requests carry: all calls share one cache key
Pats == {NoPat}

\* the bodies a POST /generate/stream may carry
Requests ==
    [username : Usernames, repo : Repos, instructions : InstructionLengths,
     api_key : {"None"}, github_pat : Pats]

\* the bodies a POST /generate/cost may carry
CostRequests ==
    [username : Usernames, repo : { <<"r">> }, instructions : {0},
     api_key : {"None"}, github_pat : Pats]

Main == <<"m", "a", "i", "n">>
Dev == <<"d", "e", "v">>

\* what the three GitHubService calls of one fetch may do: answer (the default
\* branch may be missing) or raise
FetchOutcomes ==
    [ok : {TRUE}, default_branch : {<<>>, Dev}]
        \cup [ok : {FALSE}, message : {"NotFound", "RateLimited"}]

\* what session.post may do: raise aiohttp.ClientError, or answer with a status
PostOutcomes ==
    { [connected |-> FALSE],
      [connected |-> TRUE, status |-> HttpOk],
      [connected |-> TRUE, status |-> 500] }

\* the response texts the backend streams in each phase
Fragments(p) ==
    CASE p = 1 -> { <<"B", "A", "D", "_">>,
                    <<"I", "N", "S", "T", "R", "U", "C", "T", "I", "O", "N", "S">> }
      [] p = 2 -> { <<"m">> }
      [] p = 3 -> { <<"c", "l", "i", "c", "k", " ", "A", " ", "\"", "s", "r", "c">>,
                    <<"/", "a", ".", "p", "y", "\"">>,
                    <<"\"">> }
      [] OTHER -> {}

\* the lines response.content may deliver in phase p: a blank line, a line that is
\* not JSON, a JSON value that is no object, and JSON objects with a response text
\* (possibly empty) or without one
TransportLines(p) ==
    { [kind |-> "blank"], [kind |-> "malformed"], [kind |-> "json_array"],
      [kind |-> "json", data |-> [done |-> TRUE]],
      [kind |-> "json", data |-> [response |-> <<>>]] }
        \cup { [kind |-> "json", data |-> [response |-> t]] : t \in Fragments(p) }

(***************************************************************************)
(* get_cached_github_data and its lru_cache, generate.py:33-46.            *)
(***************************************************************************)
\* the positional arguments the two callers pass: the cache key
Key(b) == <<b.username, b.repo, b.github_pat>>

Keys == {Key(b) : b \in Requests \cup CostRequests}

\* the kinds of call counted in lookups
LookupRecords == [key : Keys, caller : {"cost", "generate"}, did : {"hit", "fetched", "raised"}]

\* calls of get_cached_github_data made by caller so far
CallsBy(caller) ==
    LET recs == {rec \in LookupRecords : rec.caller = caller /\ lookups[rec] > 0}
        RECURSIVE Total(_)
        Total(S) == IF S = {} THEN 0
                    ELSE LET x == CHOOSE x \in S : TRUE IN lookups[x] + Total(S \ {x})
    IN  Total(recs)

CacheIndex(key) == CHOOSE i \in 1..Len(cache) : cache[i].key = key

CacheHit(key) == \E i \in 1..Len(cache) : cache[i].key = key

\* the sequence c without its element i
Without(c, i) == SubSeq(c, 1, i - 1) \o SubSeq(c, i + 1, Len(c))

\* the function body: the dict built from a fetch that answered
FetchedData(fetch) ==
    [default_branch |-> IF fetch.default_branch = <<>> THEN Main
                        ELSE fetch.default_branch,
     file_tree |-> "file_tree", readme |-> "readme"]

\* lru_cache stores a new result, evicting the least recently used entry when full
CacheStore(c, key, value) ==
    LET kept == IF Len(c) >= LruMaxSize THEN Tail(c) ELSE c
    IN  Append(kept, [key |-> key, value |-> value])

\* CacheAfterMiss of a function without the lru_cache decorator
CacheAfterMissNoStore(c, key, fetch) == c

\* lru_cache stores a result only when the wrapped function returned
CacheAfterMiss(c, key, fetch) ==
    IF fetch.ok THEN CacheStore(c, key, FetchedData(fetch)) ELSE c

\* get_cached_github_data with the exception of the fetch swallowed: the call
\* returns metadata of an empty repository on the branch main
get_cached_github_dataSwallowed(key, fetch) ==
    IF CacheHit(key)
    THEN LET i == CacheIndex(key)
         IN  [did |-> "hit", raised |-> FALSE, value |-> cache[i].value,
              cache |-> Append(Without(cache, i), cache[i])]
    ELSE IF fetch.ok
    THEN [did |-> "fetched", raised |-> FALSE, value |-> FetchedData(fetch),
          cache |-> CacheAfterMiss(cache, key, fetch)]
    ELSE [did |-> "raised", raised |-> FALSE,
          value |-> [default_branch |-> Main, file_tree |-> "file_tree",
                     readme |-> "readme"],
          cache |-> cache]

\* one call get_cached_github_data(*key): a hit returns the stored dict and marks
\* it most recently used; a miss runs the fetch, whose exception propagates
get_cached_github_data(key, fetch) ==
    IF CacheHit(key)
    THEN LET i == CacheIndex(key)
         IN  [did |-> "hit", raised |-> FALSE, value |-> cache[i].value,
              cache |-> Append(Without(cache, i), cache[i])]
    ELSE IF fetch.ok
    THEN [did |-> "fetched", raised |-> FALSE, value |-> FetchedData(fetch),
          cache |-> CacheAfterMiss(cache, key, fetch)]
    ELSE [did |-> "raised", raised |-> TRUE, message |-> fetch.message,
          cache |-> CacheAfterMiss(cache, key, fetch)]

LookupRecord(key, caller, r) == [key |-> key, caller |-> caller, did |-> r.did]

\* lookups with one more call of this kind counted
Counted(rec) == [lookups EXCEPT ![rec] = @ + 1]

(***************************************************************************)
(* The wire records, generate.py:130-206 (the dict given to json.dumps).   *)
(***************************************************************************)
Started == [status |-> "started", message |-> "Starting generation process..."]

BeganStatus(p) ==
    CASE p = 1 -> "explanation_sent" [] p = 2 -> "mapping" [] p = 3 -> "diagram"

BeganMessage(p) ==
    CASE p = 1 -> "Analyzing repository structure..."
      [] p = 2 -> "Creating component mapping..."
      [] p = 3 -> "Generating diagram..."

\* ChunkStatus with the status of the mapping loop pasted into the other loops
ChunkStatusPasted(p) == "mapping_chunk"

ChunkStatus(p) ==
    CASE p = 1 -> "explanation_chunk" [] p = 2 -> "mapping_chunk"
      [] p = 3 -> "diagram_chunk"

PhaseBegan(p) == [status |-> BeganStatus(p), message |-> BeganMessage(p)]

PhaseChunk(p, chunk) == [status |-> ChunkStatus(p), chunk |-> chunk]

\* generate.py:165
PhaseAborted == [error |-> "Invalid or unclear instructions provided"]

\* generate.py:202
Completed(diagram) == [status |-> "complete", diagram |-> diagram]

\* generate.py:206
Failed(message) == [error |-> message]

(***************************************************************************)
(* Prompts and payloads, generate.py:133-192.                              *)
(***************************************************************************)
\* the suffix is appended when body.instructions is truthy
WithInstructions(prompt, b) ==
    IF b.instructions # 0
    THEN <<prompt, "\n", "ADDITIONAL_SYSTEM_INSTRUCTIONS_PROMPT">>
    ELSE <<prompt>>

\* system_prompt with the suffix appended to the second prompt too
system_promptAllSuffixed(p, b) ==
    CASE p = 1 -> WithInstructions("SYSTEM_FIRST_PROMPT", b)
      [] p = 2 -> WithInstructions("SYSTEM_SECOND_PROMPT", b)
      [] p = 3 -> WithInstructions("SYSTEM_THIRD_PROMPT", b)

system_prompt(p, b) ==
    CASE p = 1 -> WithInstructions("SYSTEM_FIRST_PROMPT", b)
      [] p = 2 -> <<"SYSTEM_SECOND_PROMPT">>
      [] p = 3 -> WithInstructions("SYSTEM_THIRD_PROMPT", b)

\* the data dict of the call for phase p, from the locals as they are then
Payload(p) ==
    CASE p = 1 -> [file_tree |-> github_data.file_tree, readme |-> github_data.readme,
                   instructions |-> body.instructions]
      [] p = 2 -> [explanation |-> explanation, file_tree |-> github_data.file_tree]
      [] p = 3 -> [explanation |-> explanation,
                   component_mapping |-> full_second_response,
                   instructions |-> body.instructions]

EngineCall(p) ==
    [phase |-> p, system_prompt |-> system_prompt(p, body), data |-> Payload(p),
     api_key |-> body.api_key, reasoning_effort |-> "medium"]

\* ollama_service.py:90-94, in tenths
Temperature(reasoning_effort) ==
    CASE reasoning_effort = "low" -> 1
      [] reasoning_effort = "medium" -> 5
      [] reasoning_effort = "high" -> 9
      [] OTHER -> 1

(***************************************************************************)
(* Initial state: no request has arrived, the cache is empty.              *)
(***************************************************************************)
Phases == 1..3

Init ==
    /\ body = NoBody
    /\ response = [none |-> TRUE]
    /\ pc = "idle"
    /\ phase = 0
    /\ events = <<>>
    /\ github_data = NoData
    /\ explanation = <<>>
    /\ full_second_response = <<>>
    /\ mermaid_code = <<>>
    /\ line_count = 0
    /\ conn = [p \in Phases |-> "none"]
    /\ engineCalls = <<>>
    /\ cache = <<>>
    /\ lookups = [rec \in LookupRecords |-> 0]
    /\ delivered = 0
    /\ posted = <<>>
    /\ call = NoCall
    /\ results = <<>>

locals == <<github_data, explanation, full_second_response, mermaid_code>>
metadata == <<cache, lookups>>
direct == <<call, results>>

(***************************************************************************)
(* POST /generate/cost, generate.py:57-74. The handler has no await: it    *)
(* runs from its first line to its return without yielding the event loop. *)
(***************************************************************************)
\* the dict the handler returns (generate.py:72, 74)
CostResponse(r) ==
    IF r.raised THEN [error |-> r.message] ELSE [cost |-> "$0.00 USD (using local LLM)"]

get_generation_cost(b, fetch) ==
    /\ CallsBy("cost") < MaxCostCalls
    /\ LET r == get_cached_github_data(Key(b), fetch)
       IN  /\ cache' = r.cache
           /\ lookups' = Counted(LookupRecord(Key(b), "cost", r))
    /\ UNCHANGED <<body, response, pc, phase, events, locals, line_count, conn,
                   engineCalls, delivered,
                   posted, direct>>

(***************************************************************************)
(* POST /generate/stream, generate.py:103-117: validation, then the        *)
(* StreamingResponse over a generator that has not run yet.                *)
(***************************************************************************)
\* TooLong with >= for >
TooLongInclusive(b) == b.instructions >= MaxInstructions

TooLong(b) == b.instructions > MaxInstructions

Reserved(b) == b.repo \in ReservedRepos

Validate(b) ==
    IF TooLong(b) THEN [error |-> "Instructions exceed maximum length of 1000 characters"]
    ELSE IF Reserved(b) THEN [error |-> "Example repos cannot be regenerated"]
    ELSE [streaming |-> TRUE]

generate_stream(b) ==
    /\ pc = "idle"
    /\ body' = b
    /\ response' = Validate(b)
    /\ pc' = IF "error" \in DOMAIN Validate(b) THEN "rejected" ELSE "created"
    /\ UNCHANGED <<phase, events, locals, line_count, conn, engineCalls, metadata,
                   delivered,
                   posted, direct>>

(***************************************************************************)
(* event_generator, generate.py:119-206. Each action runs the generator    *)
(* from one suspension point (a yield, or the read of the next transport   *)
(* line inside call_o3_api_stream) to the next one.                        *)
(***************************************************************************)
\* EventsAfterError discarding what was streamed before the failure
EventsAfterErrorRollback(message) == <<Failed(message)>>

\* the handler of generate.py:204-206: the events after yielding the error record
EventsAfterError(message) == Append(events, Failed(message))

\* the async for of ollama_service.py:118 ran to the end of the stream and the
\* async with blocks were left: the connection of phase p is released
Drained(c, p) == [c EXCEPT ![p] = "drained"]

\* the async with blocks of ollama_service.py:104-108 left by an exception: the
\* connection of phase p is closed before the end of the stream
Aborted(c, p) == [c EXCEPT ![p] = "aborted"]

\* first pull: the metadata lookup (generate.py:122-127), then the started record
FetchMetadata(fetch) ==
    /\ pc = "created"
    /\ LET r == get_cached_github_data(Key(body), fetch)
       IN  /\ cache' = r.cache
           /\ lookups' = Counted(LookupRecord(Key(body), "generate", r))
           /\ IF r.raised
              THEN /\ events' = EventsAfterError(r.message)
                   /\ pc' = "yield_error"
                   /\ UNCHANGED github_data
              ELSE /\ github_data' = r.value
                   /\ events' = Append(events, Started)
                   /\ pc' = "yield_started"
    /\ UNCHANGED <<body, response, phase, explanation, full_second_response,
                   mermaid_code, line_count, conn, engineCalls, delivered,
                   posted, direct>>

\* generate.py:131-149: the sleep, the prompts, the explanation_sent record
BeginExplanation ==
    /\ pc = "yield_started"
    /\ events' = Append(events, PhaseBegan(1))
    /\ phase' = 1
    /\ pc' = "yield_begin"
    /\ UNCHANGED <<body, response, locals, line_count, conn, engineCalls, metadata,
                   delivered,
                   posted, direct>>

\* the accumulator of phase p emptied (generate.py:150, 170, 182)
ResetAccumulator(p) ==
    /\ explanation' = IF p = 1 THEN <<>> ELSE explanation
    /\ full_second_response' = IF p = 2 THEN <<>> ELSE full_second_response
    /\ mermaid_code' = IF p = 3 THEN <<>> ELSE mermaid_code

\* Accumulate with = for +=: the accumulator keeps the last chunk only
AccumulateOverwrite(p, chunk) ==
    /\ explanation' = IF p = 1 THEN chunk ELSE explanation
    /\ full_second_response' = IF p = 2 THEN chunk ELSE full_second_response
    /\ mermaid_code' = IF p = 3 THEN chunk ELSE mermaid_code

\* chunk appended to the accumulator of phase p (generate.py:161, 177, 193)
Accumulate(p, chunk) ==
    /\ explanation' = IF p = 1 THEN explanation \o chunk ELSE explanation
    /\ full_second_response' =
           IF p = 2 THEN full_second_response \o chunk ELSE full_second_response
    /\ mermaid_code' = IF p = 3 THEN mermaid_code \o chunk ELSE mermaid_code

\* InvokeEngine without the check of response.status: the body of an error
\* answer is read as the stream
InvokeEngineStatusUnchecked(post) ==
    /\ pc = "yield_begin"
    /\ ResetAccumulator(phase)
    /\ engineCalls' = Append(engineCalls, EngineCall(phase))
    /\ line_count' = 0
    /\ IF ~post.connected
       THEN /\ events' = EventsAfterError("Failed to connect to Ollama API")
            /\ pc' = "yield_error"
            /\ UNCHANGED conn
       ELSE /\ conn' = [conn EXCEPT ![phase] = "open"]
            /\ pc' = "reading"
            /\ UNCHANGED events
    /\ posted' = Append(posted, post)
    /\ UNCHANGED <<body, response, phase, github_data, metadata, delivered, direct>>

\* resumed after PhaseBegan: the engine is called for the phase and posts its
\* request (ollama_service.py:96-115)
InvokeEngine(post) ==
    /\ pc = "yield_begin"
    /\ ResetAccumulator(phase)
    /\ engineCalls' = Append(engineCalls, EngineCall(phase))
    /\ line_count' = 0
    /\ IF ~post.connected
       THEN \* aiohttp.ClientError -> ValueError (ollama_service.py:137-139)
            /\ events' = EventsAfterError("Failed to connect to Ollama API")
            /\ pc' = "yield_error"
            /\ UNCHANGED conn
       ELSE IF post.status # HttpOk
       THEN \* ollama_service.py:110-115
            /\ events' = EventsAfterError("Ollama API returned status code")
            /\ pc' = "yield_error"
            /\ conn' = Aborted(conn, phase)
       ELSE /\ conn' = [conn EXCEPT ![phase] = "open"]
            /\ pc' = "reading"
            /\ UNCHANGED events
    /\ posted' = Append(posted, post)
    /\ UNCHANGED <<body, response, phase, github_data, metadata, delivered, direct>>

\* data.get("response", "")
ResponseText(data) == IF "response" \in DOMAIN data THEN data.response ELSE <<>>

\* one line of response.content (ollama_service.py:118-132)
ReadLine(line) ==
    /\ pc = "reading"
    /\ line \in TransportLines(phase)
    /\ IF line.kind = "blank"
       THEN UNCHANGED <<events, locals, line_count, conn, pc, delivered>>
       ELSE /\ delivered < MaxLines
            /\ delivered' = delivered + 1
            /\ line_count' = line_count + 1
            /\ CASE line.kind = "malformed" ->
                        \* json.JSONDecodeError: logged, next line
                        UNCHANGED <<events, locals, conn, pc>>
                 [] line.kind = "json_array" ->
                        \* data.get raises AttributeError, re-raised at
                        \* ollama_service.py:140-142
                        /\ events' = EventsAfterError("object has no attribute 'get'")
                        /\ pc' = "yield_error"
                        /\ conn' = Aborted(conn, phase)
                        /\ UNCHANGED locals
                 [] line.kind = "json" /\ ResponseText(line.data) = <<>> ->
                        UNCHANGED <<events, locals, conn, pc>>
                 [] line.kind = "json" /\ ResponseText(line.data) # <<>> ->
                        \* yield content, accumulated and relayed by the caller
                        /\ Accumulate(phase, ResponseText(line.data))
                        /\ events' = Append(events,
                                            PhaseChunk(phase, ResponseText(line.data)))
                        /\ pc' = "yield_chunk"
                        /\ UNCHANGED <<github_data, conn>>
    /\ UNCHANGED <<body, response, phase, engineCalls, metadata, posted, direct>>

\* resumed after a chunk record: back into the read of the next line
ResumeRead ==
    /\ pc = "yield_chunk"
    /\ pc' = "reading"
    /\ UNCHANGED <<body, response, phase, events, locals, line_count, conn,
                   engineCalls, metadata, delivered,
                   posted, direct>>

\* the read of the next line raises aiohttp.ClientError (ollama_service.py:137-139)
TransportError ==
    /\ pc = "reading"
    /\ events' = EventsAfterError("Failed to connect to Ollama API")
    /\ pc' = "yield_error"
    /\ conn' = Aborted(conn, phase)
    /\ UNCHANGED <<body, response, phase, locals, line_count, engineCalls, metadata,
                   delivered,
                   posted, direct>>

\* HasSentinel looking at the chunk just relayed instead of the whole explanation
HasSentinelInLastChunk(text) ==
    /\ events # <<>>
    /\ "chunk" \in DOMAIN events[Len(events)]
    /\ Contains(events[Len(events)].chunk, BAD_INSTRUCTIONS)

\* generate.py:164
HasSentinel(text) == Contains(text, BAD_INSTRUCTIONS)

\* FinalDiagram without the call of process_click_events
FinalDiagramUnprocessed(code) == code

\* generate.py:197-199
FinalDiagram(code) ==
    process_click_events(code, body.username, body.repo, github_data.default_branch)

\* the transport closes: the async for of the phase ends and the code after it
\* runs up to the next yield (generate.py:164-169, 180-181, 196-202)
TransportClose ==
    /\ pc = "reading"
    /\ conn' = Drained(conn, phase)
    /\ CASE phase = 1 /\ HasSentinel(explanation) ->
                /\ events' = Append(events, PhaseAborted)
                /\ pc' = "yield_abort"
                /\ UNCHANGED <<phase, mermaid_code>>
         [] phase = 1 /\ ~HasSentinel(explanation) ->
                /\ events' = Append(events, PhaseBegan(2))
                /\ phase' = 2
                /\ pc' = "yield_begin"
                /\ UNCHANGED mermaid_code
         [] phase = 2 ->
                /\ events' = Append(events, PhaseBegan(3))
                /\ phase' = 3
                /\ pc' = "yield_begin"
                /\ UNCHANGED mermaid_code
         [] phase = 3 ->
                /\ mermaid_code' = FinalDiagram(mermaid_code)
                /\ events' = Append(events, Completed(FinalDiagram(mermaid_code)))
                /\ pc' = "yield_complete"
                /\ UNCHANGED phase
    /\ UNCHANGED <<body, response, github_data, explanation, full_second_response,
                   line_count, engineCalls, metadata, delivered,
                   posted, direct>>

\* ResumeAfterAbort without the return: the generator goes on to phase 2
ResumeAfterAbortNoReturn ==
    [pc |-> "yield_begin", phase |-> 2, events |-> Append(events, PhaseBegan(2))]

\* resumed after the abort record: the return of generate.py:166
ResumeAfterAbort == [pc |-> "aborted", phase |-> phase, events |-> events]

\* resumed after the last record: the generator returns and the stream closes
Finish ==
    /\ pc \in {"yield_abort", "yield_complete", "yield_error"}
    /\ CASE pc = "yield_abort" ->
                /\ pc' = ResumeAfterAbort.pc
                /\ phase' = ResumeAfterAbort.phase
                /\ events' = ResumeAfterAbort.events
         [] pc = "yield_complete" ->
                /\ pc' = "completed"
                /\ UNCHANGED <<phase, events>>
         [] pc = "yield_error" ->
                /\ pc' = "failed"
                /\ UNCHANGED <<phase, events>>
    /\ UNCHANGED <<body, response, locals, line_count, conn, engineCalls, metadata,
                   delivered,
                   posted, direct>>

Suspended ==
    {"created", "yield_started", "yield_begin", "reading", "yield_chunk",
     "yield_abort", "yield_complete", "yield_error"}

\* EventsAfterCancel with except BaseException for except Exception
EventsAfterCancelCaught == Append(events, Failed("CancelledError"))

\* what the handlers of CancelledError / GeneratorExit append to the stream: both
\* are BaseException, which except Exception (generate.py:204, ollama_service.py
\* 137-142) does not catch
EventsAfterCancel == events

\* the consumer stops pulling: CancelledError (GeneratorExit when the generator is
\* finalized at a yield) is raised at the suspension point and unwinds the async
\* with blocks of the running engine call
Cancel ==
    /\ pc \in Suspended
    /\ pc' = "cancelled"
    /\ events' = EventsAfterCancel
    /\ conn' = IF phase \in Phases /\ conn[phase] = "open"
               THEN Aborted(conn, phase) ELSE conn
    /\ UNCHANGED <<body, response, phase, locals, line_count, engineCalls, metadata,
                   delivered,
                   posted, direct>>

Next ==
    \/ \E b \in CostRequests, fetch \in FetchOutcomes : get_generation_cost(b, fetch)
    \/ \E b \in Requests : generate_stream(b)
    \/ \E fetch \in FetchOutcomes : FetchMetadata(fetch)
    \/ BeginExplanation
    \/ \E post \in PostOutcomes : InvokeEngine(post)
    \/ \E line \in TransportLines(phase) : ReadLine(line)
    \/ ResumeRead
    \/ TransportError
    \/ TransportClose
    \/ Finish
    \/ Cancel

Spec == Init /\ [][Next]_vars

(***************************************************************************)
(* Reading the event stream.                                               *)
(***************************************************************************)
Last(seq) == seq[Len(seq)]

HasStatus(r, status) == "status" \in DOMAIN r /\ r.status = status

\* PhaseAborted, Completed and Failed are the terminal events
IsTerminal(r) == "error" \in DOMAIN r \/ HasStatus(r, "complete")

\* the texts of the PhaseChunk events with this status, in stream order
ChunkTexts(status) ==
    LET chunks == SelectSeq(events, LAMBDA r : HasStatus(r, status))
    IN  [i \in 1..Len(chunks) |-> chunks[i].chunk]

\* the same texts as chunk records
ChunkRecords(status) ==
    [i \in 1..Len(ChunkTexts(status)) |-> [status |-> status, chunk |-> ChunkTexts(status)[i]]]

\* the indices at which record r occurs in the stream
Occurrences(r) == {i \in 1..Len(events) : events[i] = r}

\* the generator has returned: the StreamingResponse has closed the channel
Closed == pc \in {"aborted", "completed", "failed"}

\* the phase an event belongs to: 0 Started, 1..3 the phases, 4 the terminal events
Rank(r) ==
    IF IsTerminal(r) THEN 4
    ELSE IF r.status = "started" THEN 0
    ELSE IF r.status \in {"explanation_sent", "explanation_chunk"} THEN 1
    ELSE IF r.status \in {"mapping", "mapping_chunk"} THEN 2
    ELSE IF r.status \in {"diagram", "diagram_chunk"} THEN 3
    ELSE 5

BeganOf(p) ==
    CASE p = 1 -> "explanation_sent" [] p = 2 -> "mapping" [] p = 3 -> "diagram"

ChunkOf(p) ==
    CASE p = 1 -> "explanation_chunk" [] p = 2 -> "mapping_chunk"
      [] p = 3 -> "diagram_chunk"

(***************************************************************************)
(* C1. A stream that was run to its end ends with exactly one terminal     *)
(* event (PhaseAborted, Completed or Failed): a terminal event is always   *)
(* the last event of the stream, so nothing is emitted after it and there  *)
(* is never a second one; once it is emitted the generator can only        *)
(* return; and a closed stream has one.                                    *)
(***************************************************************************)
C1_OneTerminalEventLast ==
    /\ \A i \in 1..Len(events) : IsTerminal(events[i]) => i = Len(events)
    /\ Closed => events # <<>> /\ IsTerminal(Last(events))
    /\ (events # <<>> /\ IsTerminal(Last(events))) =>
           pc \in {"yield_abort", "yield_complete", "yield_error",
                   "aborted", "completed", "failed", "cancelled"}
    /\ pc \in {"yield_abort", "yield_complete", "yield_error"} =>
           events # <<>> /\ IsTerminal(Last(events))

\* an engine exception in the third phase, after chunks of the second
C1_Witness ==
    /\ pc = "failed"
    /\ phase = 3
    /\ Len(ChunkTexts("mapping_chunk")) > 0
    /\ IsTerminal(Last(events))

(***************************************************************************)
(* C2. Every non-empty event stream starts with the Started event and      *)
(* holds exactly one.                                                      *)
(***************************************************************************)
C2_StartedFirstAndOnce ==
    events # <<>> =>
        /\ HasStatus(events[1], "started")
        /\ Cardinality({i \in 1..Len(events) : HasStatus(events[i], "started")}) = 1

(***************************************************************************)
(* C3. The phases run one after the other in the order explanation,        *)
(* mapping, diagram: the events are ordered by phase, each PhaseBegan      *)
(* occurs at most once and before every chunk of its phase, a phase begins *)
(* only when the stream of the phase before it was read to its end, at     *)
(* most one engine connection is open, and the engine is called for the    *)
(* phases 1, 2, 3 in this order, for phase N + 1 with the concatenation of *)
(* all chunks of phase N.                                                  *)
(***************************************************************************)
C3_PhasesInOrder ==
    /\ \A i, j \in 1..Len(events) : i < j => Rank(events[i]) <= Rank(events[j])
    /\ \A i \in 1..Len(events) : Rank(events[i]) <= 4
    /\ \A p \in Phases :
           /\ Cardinality({i \in 1..Len(events) : HasStatus(events[i], BeganOf(p))}) <= 1
           /\ \A i \in 1..Len(events) :
                  HasStatus(events[i], ChunkOf(p)) =>
                      \E j \in 1..(i - 1) : HasStatus(events[j], BeganOf(p))
    /\ \A p \in 2..3 :
           (\E i \in 1..Len(events) : HasStatus(events[i], BeganOf(p))) =>
               conn[p - 1] = "drained"
    /\ Cardinality({p \in Phases : conn[p] = "open"}) <= 1
    /\ \A k \in 1..Len(engineCalls) :
           /\ engineCalls[k].phase = k
           /\ \E i \in 1..Len(events) : HasStatus(events[i], BeganOf(k))
           /\ k > 1 => conn[k - 1] = "drained"
    /\ Len(engineCalls) >= 2 =>
           engineCalls[2].data.explanation = Concat(ChunkTexts("explanation_chunk"))
    /\ Len(engineCalls) >= 3 =>
           engineCalls[3].data.component_mapping = Concat(ChunkTexts("mapping_chunk"))

\* all three phases were run, the first two with a chunk each
C3_Witness ==
    /\ Len(engineCalls) = 3
    /\ Len(ChunkTexts("explanation_chunk")) = 1
    /\ Len(ChunkTexts("mapping_chunk")) = 1
    /\ pc = "completed"

(***************************************************************************)
(* C4. When the stream of phase 1 was read to its end and the              *)
(* concatenation of its chunks contains BAD_INSTRUCTIONS, the events are   *)
(* exactly Started, PhaseBegan(explanation), the explanation chunks,       *)
(* PhaseAborted, and the engine was called once; PhaseAborted is emitted   *)
(* only then.                                                              *)
(***************************************************************************)
C4_SentinelAborts ==
    LET text == Concat(ChunkTexts("explanation_chunk"))
        aborts == Occurrences([error |-> "Invalid or unclear instructions provided"])
    IN  /\ (conn[1] = "drained" /\ Contains(text, BAD_INSTRUCTIONS)) =>
               /\ events = <<[status |-> "started", message |-> "Starting generation process..."],
                             [status |-> "explanation_sent",
                              message |-> "Analyzing repository structure..."]>>
                               \o ChunkRecords("explanation_chunk")
                               \o <<[error |-> "Invalid or unclear instructions provided"]>>
               /\ Len(engineCalls) = 1
               /\ pc \in {"yield_abort", "aborted", "cancelled"}
        /\ aborts # {} =>
               /\ conn[1] = "drained"
               /\ Contains(text, BAD_INSTRUCTIONS)
               /\ aborts = {Len(events)}

\* the sentinel arrived split over two fragments, neither of which contains it
C4_Witness ==
    /\ pc = "aborted"
    /\ Len(ChunkTexts("explanation_chunk")) = 2
    /\ \A i \in 1..2 : ~Contains(ChunkTexts("explanation_chunk")[i], BAD_INSTRUCTIONS)

(***************************************************************************)
(* The records of the wire format, as a consumer expects them.             *)
(***************************************************************************)
StartedRecord == [status |-> "started", message |-> "Starting generation process..."]

BeganRecord(p) ==
    [status |-> BeganOf(p),
     message |-> CASE p = 1 -> "Analyzing repository structure..."
                   [] p = 2 -> "Creating component mapping..."
                   [] p = 3 -> "Generating diagram..."]

AbortRecord == [error |-> "Invalid or unclear instructions provided"]

\* a Failed event: an error record that is not the abort record
IsFailed(r) == "error" \in DOMAIN r /\ r # AbortRecord

\* the request failed: its last event is a Failed event
FailedNow == events # <<>> /\ IsFailed(Last(events))

\* the events of the phases 1..n up to now: PhaseBegan and chunks, phase by phase
RECURSIVE PhaseEvents(_)
PhaseEvents(n) ==
    IF n = 0 THEN <<>>
    ELSE PhaseEvents(n - 1) \o <<BeganRecord(n)>> \o ChunkRecords(ChunkOf(n))

(***************************************************************************)
(* C5 as stated. When the engine raises in phase 2 the events are Started, *)
(* PhaseBegan(explanation), explanation chunks, PhaseBegan(mapping),       *)
(* Failed.                                                                 *)
(***************************************************************************)
C5_FailureInMappingAsStated ==
    (FailedNow /\ phase = 2) =>
        events = <<StartedRecord, BeganRecord(1)>> \o ChunkRecords("explanation_chunk")
                     \o <<BeganRecord(2), Last(events)>>

(***************************************************************************)
(* C5 amended. When the engine raises in phase N the events are Started,   *)
(* then for each phase up to N its PhaseBegan and its chunks (those of     *)
(* phase N included), then one Failed event; the engine was called once    *)
(* for each of the phases 1..N and for no other, its connection is not     *)
(* open, and every fragment accumulated before the failure is in the       *)
(* stream.                                                                 *)
(***************************************************************************)
C5_FailureKeepsStream ==
    (FailedNow /\ phase \in Phases) =>
        /\ events = <<StartedRecord>> \o PhaseEvents(phase) \o <<Last(events)>>
        /\ Len(engineCalls) = phase
        /\ \A k \in 1..Len(engineCalls) : engineCalls[k].phase = k
        /\ \A p \in Phases : conn[p] # "open"
        /\ phase >= 1 => explanation = Concat(ChunkTexts("explanation_chunk"))
        /\ phase >= 2 => full_second_response = Concat(ChunkTexts("mapping_chunk"))
        /\ phase >= 3 => mermaid_code = Concat(ChunkTexts("diagram_chunk"))
        /\ pc \in {"yield_error", "failed", "cancelled"}

\* the engine raised in phase 2 after a mapping chunk was streamed
C5_Witness ==
    /\ pc = "failed"
    /\ phase = 2
    /\ Len(ChunkTexts("mapping_chunk")) = 1
    /\ Len(ChunkTexts("explanation_chunk")) = 1

(***************************************************************************)
(* C6. A request whose instructions are longer than 1000 characters or     *)
(* whose repository is reserved is rejected: the answer is an error, no    *)
(* stream exists, no event was emitted, the generation made no metadata    *)
(* lookup and the engine was not called. Every other request, with         *)
(* instructions of exactly 1000 characters too, is answered with a stream. *)
(***************************************************************************)
C6_ValidationRejects ==
    body # NoBody =>
        IF body.instructions > 1000 \/ body.repo \in ReservedRepos
        THEN /\ "error" \in DOMAIN response
             /\ pc = "rejected"
             /\ events = <<>>
             /\ engineCalls = <<>>
             /\ CallsBy("generate") = 0
             /\ \A p \in Phases : conn[p] = "none"
             /\ github_data = NoData
        ELSE /\ response = [streaming |-> TRUE]
             /\ pc # "rejected"

\* instructions of 1001 characters rejected while the cache holds an entry
C6_Witness ==
    /\ pc = "rejected"
    /\ body.instructions = 1001
    /\ body.repo \notin ReservedRepos
    /\ cache # <<>>

(***************************************************************************)
(* C7. When the three phases were read to their end without the sentinel,  *)
(* the stream ends in one Completed event, whose diagram is the link       *)
(* rewriter applied to the concatenation of the diagram chunks with the    *)
(* request's owner and repo and the default branch: click A "src/a.py"     *)
(* becomes .../blob/<branch>/src/a.py and click A "src" becomes            *)
(* .../tree/<branch>/src.                                                  *)
(***************************************************************************)
FileDirective ==
    <<"c", "l", "i", "c", "k", " ", "A", " ", "\"", "s", "r", "c", "/", "a", ".", "p", "y", "\"">>

DirDirective == <<"c", "l", "i", "c", "k", " ", "A", " ", "\"", "s", "r", "c", "\"">>

RewrittenFile(branch) ==
    <<"c", "l", "i", "c", "k", " ", "A", " ", "\"", "h", "t", "t", "p", "s", ":", "/", "/", "g", "i", "t", "h", "u", "b", ".", "c", "o", "m", "/", "o", "/", "r", "/", "b", "l", "o", "b", "/">>
        \o branch \o <<"/", "s", "r", "c", "/", "a", ".", "p", "y", "\"">>

RewrittenDir(branch) ==
    <<"c", "l", "i", "c", "k", " ", "A", " ", "\"", "h", "t", "t", "p", "s", ":", "/", "/", "g", "i", "t", "h", "u", "b", ".", "c", "o", "m", "/", "o", "/", "r", "/", "t", "r", "e", "e", "/">>
        \o branch \o <<"/", "s", "r", "c", "\"">>

C7_CompletedCarriesRewrittenDiagram ==
    LET chunks == Concat(ChunkTexts("diagram_chunk"))
        completes == {i \in 1..Len(events) : HasStatus(events[i], "complete")}
        branch == github_data.default_branch
    IN  /\ ((\A p \in Phases : conn[p] = "drained")
               /\ ~Contains(Concat(ChunkTexts("explanation_chunk")), BAD_INSTRUCTIONS)) =>
                   completes = {Len(events)}
        /\ completes # {} =>
               /\ completes = {Len(events)}
               /\ \A p \in Phases : conn[p] = "drained"
               /\ branch \in {Main, Dev}
               /\ Last(events).diagram =
                      process_click_events(chunks, body.username, body.repo, branch)
               /\ chunks = FileDirective => Last(events).diagram = RewrittenFile(branch)
               /\ chunks = DirDirective => Last(events).diagram = RewrittenDir(branch)
               /\ Len(chunks) < Len(ClickLiteral) => Last(events).diagram = chunks

\* completed with a file directive that arrived split over two chunks, on a
\* repository whose default branch is dev
C7_Witness ==
    /\ pc = "completed"
    /\ Len(ChunkTexts("diagram_chunk")) = 2
    /\ Concat(ChunkTexts("diagram_chunk")) = FileDirective
    /\ Last(events).diagram = RewrittenFile(Dev)

(***************************************************************************)
(* C8. Every record of the stream carries a status field with one of the   *)
(* nine values, and the abort record differs from a failure record in its  *)
(* tag.                                                                    *)
(***************************************************************************)
StatusValues ==
    {"started", "explanation_sent", "explanation_chunk", "mapping", "mapping_chunk",
     "diagram", "diagram_chunk", "complete", "error"}

\* the tag of a record: its status, if it has one
TagOf(r) == IF "status" \in DOMAIN r THEN r.status ELSE "untagged"

C8_EveryRecordTagged ==
    /\ \A i \in 1..Len(events) :
           "status" \in DOMAIN events[i] /\ events[i].status \in StatusValues
    /\ \A i \in 1..Len(events) :
           events[i] = AbortRecord => TagOf(events[i]) # TagOf(Failed("NotFound"))

(***************************************************************************)
(* C9 as stated. The calls of get_cached_github_data for one key trigger   *)
(* at most one metadata fetch, whether the fetch returns or raises.        *)
(***************************************************************************)
CallsOf(key, did) ==
    lookups[[key |-> key, caller |-> "cost", did |-> did]]
        + lookups[[key |-> key, caller |-> "generate", did |-> did]]

C9_AtMostOneFetchAsStated ==
    \A key \in Keys : CallsOf(key, "fetched") + CallsOf(key, "raised") <= 1

(***************************************************************************)
(* C9 amended. The calls for one key trigger at most one metadata fetch    *)
(* that returns: after it every call for the key is a cache hit (the cache *)
(* holds the key, and no key is evicted while fewer than 100 are cached).  *)
(* A fetch that raises is not cached: the next call for the key fetches    *)
(* again, so that the fetches are at most one more than those that raised. *)
(***************************************************************************)
C9_AtMostOneFetchThatReturns ==
    \A key \in Keys :
        /\ CallsOf(key, "fetched") <= 1
        /\ CallsOf(key, "fetched") = 1 <=> CacheHit(key)
        /\ CallsOf(key, "hit") > 0 => CallsOf(key, "fetched") = 1
        /\ Len(cache) <= Cardinality(Keys)
        /\ \A i, j \in 1..Len(cache) : cache[i].key = cache[j].key => i = j

\* two cost-estimate calls for one key: the first fetched, the second hit
C9_Witness ==
    \E key \in Keys :
        /\ lookups[[key |-> key, caller |-> "cost", did |-> "fetched"]] = 1
        /\ lookups[[key |-> key, caller |-> "cost", did |-> "hit"]] = 1
        /\ CallsOf(key, "raised") = 0

(***************************************************************************)
(* C10. When the consumer stops pulling, the step that delivers the        *)
(* cancellation emits no event, accumulates no fragment, calls the engine  *)
(* for no phase and leaves no connection open; and after it the generator  *)
(* never runs again: events, accumulators, engine calls and connections    *)
(* stay as they are.                                                       *)
(***************************************************************************)
C10_CancelStopsThePipeline ==
    [][ /\ (pc # "cancelled" /\ pc' = "cancelled") =>
               /\ events' = events
               /\ engineCalls' = engineCalls
               /\ UNCHANGED locals
               /\ \A p \in Phases : conn'[p] # "open"
               /\ \A p \in Phases : conn[p] = "open" => conn'[p] = "aborted"
        /\ pc = "cancelled" =>
               /\ pc' = "cancelled"
               /\ events' = events
               /\ engineCalls' = engineCalls
               /\ conn' = conn
               /\ UNCHANGED locals ]_vars

\* cancelled in the mapping phase after a chunk, with the connection closed
C10_Witness ==
    /\ pc = "cancelled"
    /\ phase = 2
    /\ conn[2] = "aborted"
    /\ HasStatus(Last(events), "mapping_chunk")
    /\ Len(engineCalls) = 2

(***************************************************************************)
(* The link rewriter and the incremental mode of the engine called on      *)
(* their own: process_click_events on diagram texts made of directive      *)
(* lines, call_o3_api_stream on sequences of transport lines.              *)
(***************************************************************************)
\* lines of a diagram text given to the link rewriter
MaxDirectives == 2
\* applications of the link rewriter, each to the output of the one before
MaxApplications == 2
\* transport lines the backend sends in one engine call
MaxStreamLines == 3

\* the sequences over S of length at most n
SeqsUpTo(S, n) == UNION {[1..k -> S] : k \in 0..n}

PathTarGz == <<"a", "/", "b", "/", "c", ".", "t", "a", "r", ".", "g", "z">>
PathDir == <<"a", "/", "b", "/", "c">>
PathDotted == <<"v", "1", ".", "0", "/", "s", "r", "c">>
PathSlash == <<"s", "r", "c", "/">>
PathQuoted == <<"'", "s", "r", "c", "'">>

\* the lines a diagram text is made of: click directives with a path in double or
\* in single quotes, after one space, two spaces or a line break, and a line of
\* other diagram syntax
DiagramItems ==
    [kind : {"click"}, id : { <<"A">> }, space : { <<" ">> }, quote : {"\""},
     path : {PathTarGz, PathDir, PathDotted, PathSlash, PathQuoted}]
        \cup [kind : {"click"}, id : { <<"A">> }, space : { <<" ">> }, quote : {"'"},
              path : {PathTarGz, PathDir, PathDotted, PathSlash}]
        \cup [kind : {"click"}, id : { <<"A">> }, space : { <<" ", " ">>, <<"\n">> },
              quote : {"\""}, path : {PathDir}]
        \cup { [kind |-> "text", text |-> <<"A", " ", "-", "-", ">", " ", "B">>] }

\* the text of one line
TextOfItem(item) ==
    IF item.kind = "click"
    THEN ClickLiteral \o item.id \o item.space \o <<item.quote>> \o item.path
             \o <<item.quote>>
    ELSE item.text

RECURSIVE DiagramOf(_)
\* the diagram text: the lines joined by line breaks
DiagramOf(items) ==
    IF items = <<>> THEN <<>>
    ELSE IF Len(items) = 1 THEN TextOfItem(items[1])
    ELSE TextOfItem(items[1]) \o <<"\n">> \o DiagramOf(Tail(items))

\* the calls process_click_events(diagram, username, repo, branch) under test
RewriterCalls ==
    [fn : {"process_click_events"}, items : SeqsUpTo(DiagramItems, MaxDirectives),
     username : Usernames, repo : { <<"r">> }, branch : {Main, Dev}]

\* the calls of call_o3_api_stream under test: what session.post does and the
\* lines response.content then delivers until the transport closes
StreamCalls ==
    [fn : {"call_o3_api_stream"}, post : PostOutcomes,
     lines : SeqsUpTo(TransportLines(1), MaxStreamLines)]

\* what the body of the async for does with one line (ollama_service.py:119-135)
LineOutcome(line) ==
    CASE line.kind = "blank" -> [does |-> "continue"]
      [] line.kind = "malformed" -> [does |-> "continue"]
      [] line.kind = "json_array" ->
             [does |-> "raise", message |-> "object has no attribute 'get'"]
      [] line.kind = "json" ->
             IF ResponseText(line.data) # <<>>
             THEN [does |-> "yield", content |-> ResponseText(line.data)]
             ELSE [does |-> "continue"]

RECURSIVE async_for(_, _)
\* the loop over response.content (ollama_service.py:118-135): the fragments
\* yielded, and whether the loop ended with the transport or with an exception
async_for(lines, yielded) ==
    IF lines = <<>> THEN [fragments |-> yielded, raised |-> FALSE]
    ELSE LET outcome == LineOutcome(Head(lines))
         IN  CASE outcome.does = "continue" -> async_for(Tail(lines), yielded)
               [] outcome.does = "yield" ->
                      async_for(Tail(lines), Append(yielded, outcome.content))
               [] outcome.does = "raise" ->
                      [fragments |-> yielded, raised |-> TRUE,
                       message |-> outcome.message]

\* the generator run to its end (ollama_service.py:103-142)
call_o3_api_stream(post, lines) ==
    IF ~post.connected
    THEN [fragments |-> <<>>, raised |-> TRUE,
          message |-> "Failed to connect to Ollama API"]
    ELSE IF post.status # HttpOk
    THEN [fragments |-> <<>>, raised |-> TRUE,
          message |-> "Ollama API returned status code"]
    ELSE async_for(lines, <<>>)

pipeline ==
    <<body, response, pc, phase, events, locals, line_count, conn, engineCalls,
      metadata, delivered, posted>>

\* no request is running; one function is about to be called with its arguments
InitCalls ==
    /\ body = NoBody
    /\ response = [none |-> TRUE]
    /\ pc = "idle"
    /\ phase = 0
    /\ events = <<>>
    /\ github_data = NoData
    /\ explanation = <<>>
    /\ full_second_response = <<>>
    /\ mermaid_code = <<>>
    /\ line_count = 0
    /\ conn = [p \in Phases |-> "none"]
    /\ engineCalls = <<>>
    /\ cache = <<>>
    /\ lookups = [rec \in LookupRecords |-> 0]
    /\ delivered = 0
    /\ posted = <<>>
    /\ call \in RewriterCalls \cup StreamCalls
    /\ results = <<>>

\* process_click_events applied to the diagram text, then to its own output
CallRewriter ==
    /\ call.fn = "process_click_events"
    /\ Len(results) < MaxApplications
    /\ results' = Append(results,
                         process_click_events(IF results = <<>>
                                              THEN DiagramOf(call.items)
                                              ELSE results[Len(results)],
                                              call.username, call.repo, call.branch))
    /\ UNCHANGED <<call, pipeline>>

\* call_o3_api_stream consumed until it stops
CallStream ==
    /\ call.fn = "call_o3_api_stream"
    /\ results = <<>>
    /\ results' = <<call_o3_api_stream(call.post, call.lines)>>
    /\ UNCHANGED <<call, pipeline>>

NextCalls ==
    \/ CallRewriter
    \/ CallStream

SpecCalls == InitCalls /\ [][NextCalls]_vars

(***************************************************************************)
(* Reading the result of a direct call.                                    *)
(***************************************************************************)
\* the link rewriter was applied to the diagram text of the call
Rewritten == call.fn = "process_click_events" /\ results # <<>>

\* https://github.com/o/r/ : what every rewritten path starts with
RepoUrl ==
    <<"h", "t", "t", "p", "s", ":", "/", "/", "g", "i", "t", "h", "u", "b", ".", "c", "o", "m", "/", "o", "/", "r", "/">>

\* how many times needle occurs in hay
Count(hay, needle) ==
    Cardinality({i \in 0..(Len(hay) - Len(needle)) :
                     SubSeq(hay, i + 1, i + Len(needle)) = needle})

\* the lines of the call that are click directives, in double or in single quotes
Directives == {i \in 1..Len(call.items) : call.items[i].kind = "click"}

\* those in double quotes
DoubleQuoted == {i \in Directives : call.items[i].quote = "\""}

(***************************************************************************)
(* C11. Every click directive of the diagram text, with its path in double *)
(* or in single quotes, is rewritten exactly once: the output holds one    *)
(* rewritten URL for each directive of the input, none when there is no    *)
(* directive.                                                              *)
(***************************************************************************)
C11_EveryDirectiveRewrittenOnce ==
    Rewritten => Count(results[1], RepoUrl) = Cardinality(Directives)

(***************************************************************************)
(* The URL the link rewriter is to put in the place of a path.             *)
(***************************************************************************)
\* blob for the one path whose final segment holds a dot, tree for the others
ExpectedKind(path) ==
    IF path = PathTarGz THEN <<"b", "l", "o", "b">> ELSE <<"t", "r", "e", "e">>

\* the quoted URL for a path classified as above, with this text appended
QuotedUrl(path, appended, branch) ==
    <<"\"">> \o RepoUrl \o ExpectedKind(path) \o <<"/">> \o branch \o <<"/">>
        \o appended \o <<"\"">>

\* the path without the quote characters at its two ends
WithoutOuterQuotes(path) == IF path = PathQuoted THEN <<"s", "r", "c">> ELSE path

(***************************************************************************)
(* C12 as stated. Every matched directive is rewritten with blob when the  *)
(* final segment of its path holds a dot and with tree otherwise, and the  *)
(* path is appended unchanged after https://github.com/o/r/<kind>/<branch>/ *)
(***************************************************************************)
C12_PathAppendedUnchanged ==
    Rewritten =>
        \A i \in DoubleQuoted :
            Contains(results[1],
                     QuotedUrl(call.items[i].path, call.items[i].path, call.branch))

(***************************************************************************)
(* C12 amended. Every matched directive is rewritten with blob when the    *)
(* final segment of its path holds a dot and with tree otherwise (blob for *)
(* a/b/c.tar.gz; tree for a/b/c, v1.0/src, src/ and 'src'), and the path   *)
(* without the quote characters at its start and at its end is appended    *)
(* after https://github.com/o/r/<kind>/<branch>/.                          *)
(***************************************************************************)
C12_BlobIffDotInFinalSegment ==
    Rewritten =>
        \A i \in DoubleQuoted :
            Contains(results[1],
                     QuotedUrl(call.items[i].path,
                               WithoutOuterQuotes(call.items[i].path), call.branch))

\* a text with the directives for v1.0/src and 'src', rewritten on branch dev
C12_Witness ==
    /\ Rewritten
    /\ call.branch = Dev
    /\ Len(call.items) = 2
    /\ DoubleQuoted = {1, 2}
    /\ call.items[1].path = PathDotted
    /\ call.items[2].path = PathQuoted
    /\ Contains(results[1], QuotedUrl(PathDotted, PathDotted, Dev))

(***************************************************************************)
(* The text around the quoted paths.                                       *)
(***************************************************************************)
IsPrefix(a, b) == Len(a) <= Len(b) /\ SubSeq(b, 1, Len(a)) = a

IsSuffix(a, b) == Len(a) <= Len(b) /\ SubSeq(b, Len(b) - Len(a) + 1, Len(b)) = a

\* the diagram text from its start to the opening quote of the directive in line k:
\* the lines before it, click, the identifier, the whitespace and the quote
ThroughOpeningQuote(items, k) ==
    (IF k = 1 THEN <<>> ELSE DiagramOf(SubSeq(items, 1, k - 1)) \o <<"\n">>)
        \o ClickLiteral \o items[k].id \o items[k].space \o <<items[k].quote>>

\* the diagram text from the closing quote of the directive in line k to its end
FromClosingQuote(items, k) ==
    <<items[k].quote>>
        \o (IF k = Len(items) THEN <<>>
            ELSE <<"\n">> \o DiagramOf(SubSeq(items, k + 1, Len(items))))

(***************************************************************************)
(* C13. The link rewriter changes nothing but quoted paths: a text without *)
(* a click directive is returned as it is, and the output of a text with   *)
(* directives starts with the input up to the opening quote of its first   *)
(* directive (earlier lines, identifier and whitespace included) and ends  *)
(* with the input from the closing quote of its last directive on.         *)
(***************************************************************************)
C13_OnlyQuotedPathsChange ==
    Rewritten =>
        IF Directives = {} THEN results[1] = DiagramOf(call.items)
        ELSE LET first == CHOOSE i \in Directives : \A j \in Directives : i <= j
                 last == CHOOSE i \in Directives : \A j \in Directives : j <= i
             IN  /\ IsPrefix(ThroughOpeningQuote(call.items, first), results[1])
                 /\ IsSuffix(FromClosingQuote(call.items, last), results[1])

(***************************************************************************)
(* Reading the result of a direct call of the engine.                      *)
(***************************************************************************)
\* the engine's generator was consumed until it stopped
Streamed == call.fn = "call_o3_api_stream" /\ results # <<>>

\* the backend was reached and answered with status 200
Answered == call.post = [connected |-> TRUE, status |-> 200]

RECURSIVE ResponseTexts(_)
\* in order, the non-empty response texts of the lines that are JSON objects
ResponseTexts(lines) ==
    IF lines = <<>> THEN <<>>
    ELSE LET line == Head(lines)
         IN  (IF /\ line.kind = "json"
                 /\ "response" \in DOMAIN line.data
                 /\ line.data.response # <<>>
              THEN <<line.data.response>> ELSE <<>>)
                 \o ResponseTexts(Tail(lines))

(***************************************************************************)
(* C14. For every sequence of transport lines of an answered call, the     *)
(* stream ends with the transport, without an exception, and its fragments *)
(* are, in order, the non-empty response texts of the lines that are       *)
(* structured records: every other line is skipped.                        *)
(***************************************************************************)
C14_FragmentsAreTheResponseTexts ==
    (Streamed /\ Answered) =>
        /\ ~results[1].raised
        /\ results[1].fragments = ResponseTexts(call.lines)

(***************************************************************************)
(* C15. When the backend cannot be reached for the engine call of a phase, *)
(* or answers it with a status other than 200, the call fails before any   *)
(* fragment: the stream has no chunk of that phase, its last two events    *)
(* are PhaseBegan of that phase and Failed, no connection stays open and   *)
(* the engine is called for no later phase.                                *)
(***************************************************************************)
C15_BackendFailureBeforeAnyFragment ==
    \A p \in 1..Len(posted) :
        (~posted[p].connected \/ posted[p].status # 200) =>
            /\ p = Len(posted)
            /\ phase = p
            /\ Len(engineCalls) = p
            /\ ChunkTexts(ChunkOf(p)) = <<>>
            /\ Len(events) >= 2
            /\ events[Len(events) - 1] = BeganRecord(p)
            /\ IsFailed(Last(events))
            /\ conn[p] # "open"
            /\ pc \in {"yield_error", "failed", "cancelled"}

\* the backend answered the call of the mapping phase with status 500, after an
\* explanation chunk was streamed
C15_Witness ==
    /\ pc = "failed"
    /\ Len(posted) = 2
    /\ posted[2] = [connected |-> TRUE, status |-> 500]
    /\ Len(ChunkTexts("explanation_chunk")) = 1
    /\ events[Len(events) - 1] = BeganRecord(2)

(***************************************************************************)
(* C16. When the metadata fetch of a generation request raises, the stream *)
(* is one Failed event that carries the message of the fetch (NotFound or  *)
(* RateLimited): there is no Started, PhaseBegan or PhaseChunk event, the  *)
(* engine was not called, no connection was opened, nothing was            *)
(* accumulated, and the generator can only return.                         *)
(***************************************************************************)
C16_MetadataFailureIsFatal ==
    (\E key \in Keys : lookups[[key |-> key, caller |-> "generate", did |-> "raised"]] > 0) =>
        /\ events \in { <<[error |-> "NotFound"]>>, <<[error |-> "RateLimited"]>> }
        /\ engineCalls = <<>>
        /\ posted = <<>>
        /\ \A p \in Phases : conn[p] = "none"
        /\ phase = 0
        /\ github_data = NoData
        /\ explanation = <<>> /\ full_second_response = <<>> /\ mermaid_code = <<>>
        /\ pc \in {"yield_error", "failed", "cancelled"}

\* a generation request that failed with RateLimited, after a cost estimate for
\* the same repository had failed too
C16_Witness ==
    /\ pc = "failed"
    /\ events = <<[error |-> "RateLimited"]>>
    /\ \E key \in Keys :
           /\ lookups[[key |-> key, caller |-> "generate", did |-> "raised"]] = 1
           /\ lookups[[key |-> key, caller |-> "cost", did |-> "raised"]] = 1

(***************************************************************************)
(* The payloads of the engine calls and the accumulators of the phases.    *)
(***************************************************************************)
\* every engine call made so far was made with the payload the request and the
\* chunks of the phases before it determine
PayloadsFromEarlierPhases ==
    /\ Len(engineCalls) >= 1 =>
           engineCalls[1].data = [file_tree |-> "file_tree", readme |-> "readme",
                                  instructions |-> body.instructions]
    /\ Len(engineCalls) >= 2 =>
           engineCalls[2].data =
               [explanation |-> Concat(ChunkTexts("explanation_chunk")),
                file_tree |-> "file_tree"]
    /\ Len(engineCalls) >= 3 =>
           engineCalls[3].data =
               [explanation |-> Concat(ChunkTexts("explanation_chunk")),
                component_mapping |-> Concat(ChunkTexts("mapping_chunk")),
                instructions |-> body.instructions]

(***************************************************************************)
(* C17 as stated. The payload of each engine call is fixed by the request  *)
(* and the chunks of the earlier phases, and once the stream of a phase    *)
(* has ended the accumulated output of that phase stays what was           *)
(* accumulated: the concatenation of the chunks of the phase.              *)
(***************************************************************************)
C17_AccumulatedOutputNeverChanged ==
    /\ PayloadsFromEarlierPhases
    /\ conn[1] = "drained" => explanation = Concat(ChunkTexts("explanation_chunk"))
    /\ conn[2] = "drained" =>
           full_second_response = Concat(ChunkTexts("mapping_chunk"))
    /\ conn[3] = "drained" => mermaid_code = Concat(ChunkTexts("diagram_chunk"))

(***************************************************************************)
(* C17 amended. The payload of each engine call is fixed by the request    *)
(* and the chunks of the earlier phases; once the stream of phase 1 or of  *)
(* phase 2 has ended its accumulated output is the concatenation of its    *)
(* chunks and no step changes it; a call once made is not changed. The     *)
(* output accumulated in phase 3 is replaced, when its stream ends, by the *)
(* link rewriter's output for it, which no later step changes.             *)
(***************************************************************************)
C17_PayloadFixedByEarlierPhases ==
    /\ [](/\ PayloadsFromEarlierPhases
          /\ conn[1] = "drained" =>
                 explanation = Concat(ChunkTexts("explanation_chunk"))
          /\ conn[2] = "drained" =>
                 full_second_response = Concat(ChunkTexts("mapping_chunk"))
          /\ conn[3] = "drained" =>
                 /\ Concat(ChunkTexts("diagram_chunk")) = FileDirective =>
                        mermaid_code = RewrittenFile(github_data.default_branch)
                 /\ Count(Concat(ChunkTexts("diagram_chunk")), <<"\"">>) < 2 =>
                        mermaid_code = Concat(ChunkTexts("diagram_chunk")))
    /\ [][ /\ conn[1] = "drained" => explanation' = explanation
           /\ conn[2] = "drained" => full_second_response' = full_second_response
           /\ conn[3] = "drained" => mermaid_code' = mermaid_code
           /\ \A k \in 1..Len(engineCalls) :
                  Len(engineCalls') >= k /\ engineCalls'[k] = engineCalls[k] ]_vars

\* the engine is called for the diagram phase after one explanation chunk and one
\* mapping chunk
C17_Witness ==
    /\ Len(engineCalls) = 3
    /\ engineCalls[3].data.explanation # <<>>
    /\ engineCalls[3].data.component_mapping = <<"m">>
    /\ conn[2] = "drained"

(***************************************************************************)
(* C18. The engine call of phase 1 and that of phase 3 are made with the   *)
(* phase's system prompt followed by a line break and the                  *)
(* additional-instructions suffix when the request's instructions are not  *)
(* empty, and with the bare system prompt when they are empty; the call of *)
(* phase 2 is always made with the bare system prompt; every call is made  *)
(* with reasoning effort medium.                                           *)
(***************************************************************************)
C18_SuffixOnlyInPhases1And3 ==
    \A k \in 1..Len(engineCalls) :
        LET made == engineCalls[k]
            bare == CASE made.phase = 1 -> "SYSTEM_FIRST_PROMPT"
                      [] made.phase = 2 -> "SYSTEM_SECOND_PROMPT"
                      [] made.phase = 3 -> "SYSTEM_THIRD_PROMPT"
        IN  /\ made.phase = k
            /\ made.reasoning_effort = "medium"
            /\ made.system_prompt =
                   IF made.phase \in {1, 3} /\ body.instructions > 0
                   THEN <<bare, "\n", "ADDITIONAL_SYSTEM_INSTRUCTIONS_PROMPT">>
                   ELSE <<bare>>

\* the three calls of a request with instructions of 1000 characters
C18_Witness ==
    /\ Len(engineCalls) = 3
    /\ body.instructions = 1000
    /\ Len(engineCalls[1].system_prompt) = 3
    /\ Len(engineCalls[2].system_prompt) = 1

(***************************************************************************)
(* C19 as stated. The link rewriter is idempotent: applied to its own      *)
(* output with the same owner, repo and branch it returns that output      *)
(* unchanged.                                                              *)
(***************************************************************************)
C19_RewriteIsIdempotent ==
    (Rewritten /\ Len(results) >= 2) => results[2] = results[1]

(***************************************************************************)
(* C19 amended. Applied to its own output the link rewriter returns it     *)
(* unchanged only when the diagram text holds no directive with a path in  *)
(* double quotes (both outputs are then the text itself). A directive      *)
(* whose path is an absolute URL already is rewritten again, its URL taken *)
(* for a path: after the second application every rewritten directive      *)
(* holds https://github.com/o/r/ twice, and the output differs from the    *)
(* first one.                                                              *)
(***************************************************************************)
C19_RewrittenDirectiveIsRewrittenAgain ==
    (Rewritten /\ Len(results) >= 2) =>
        /\ Count(results[1], RepoUrl) = Cardinality(DoubleQuoted)
        /\ Count(results[2], RepoUrl) = 2 * Cardinality(DoubleQuoted)
        /\ DoubleQuoted = {} =>
               results[1] = DiagramOf(call.items) /\ results[2] = results[1]
        /\ DoubleQuoted # {} =>
               results[2] # results[1] /\ Len(results[2]) > Len(results[1])

\* click A "a/b/c.tar.gz" rewritten twice
C19_Witness ==
    /\ Rewritten
    /\ Len(results) = 2
    /\ Len(call.items) = 1
    /\ DoubleQuoted = {1}
    /\ call.items[1].path = PathTarGz
    /\ results[2] = ClickLiteral \o <<"A", " ">>
                        \o QuotedUrl(PathTarGz,
                                     RepoUrl \o <<"b", "l", "o", "b", "/">> \o call.branch
                                         \o <<"/">> \o PathTarGz,
                                     call.branch)

====
